---- MODULE Spec2Model ----
(***************************************************************************)
(* Model of the forked state database of qilin                             *)
(* (fork-database/src/forked_db.rs): a per-branch overlay (revm CacheDB),  *)
(* the shared cache of remote state (BlockchainDb: accounts, storage,      *)
(* block hashes), the shared SharedBackend pinned to one block, and the    *)
(* shared registry of snapshots (Snapshots<ForkDbSnapshot> behind one      *)
(* Mutex).                                                                 *)
(*                                                                         *)
(* Hash maps are functions whose DOMAIN is the set of keys present.        *)
(* Spec runs every handler as one step (calls that do not overlap);        *)
(* SpecC splits insert_snapshot and revert_snapshot at their lock          *)
(* boundaries and interleaves the branches.                                *)
(*                                                                         *)
(* The overlay is revm's CacheDB as ForkedDatabase uses it: accounts with  *)
(* their info and storage, and block hashes.  Its contracts map            *)
(* (code_by_hash) and the account states of self-destructed or newly       *)
(* created accounts are left out: a committed account is a touched one,    *)
(* whose missing slots are read from the backend.  An account info, a      *)
(* storage value and a block hash are numbers; what the remote endpoint    *)
(* answers depends on the pinned block.                                    *)
(***************************************************************************)
EXTENDS Integers, Sequences, FiniteSets, TLC

(* ------------------------------ bounds -------------------------------- *)

\* number of operations started in one behaviour of Spec
MaxOps == 5

\* number of operations started in one behaviour of SpecC
MaxOpsC == 4

\* insert_snapshot is not started once Snapshots.id has reached this value
MaxSnapshots == 2

\* width of the id counter in the model (U256 in the code, scaled down)
IdBits == 3

Branches == {1, 2}
Addrs == {1}
Slots == {1}
Numbers == {1}
Blocks == {1, 2}

\* what a commit may write: account infos and storage values that no remote
\* block holds
CommitInfos == {91, 92}
CommitSlotVals == {95}

(* ------------------------------ hash maps ------------------------------ *)

EmptyMap == [x \in {} |-> 0]

Put(m, k, v) == [x \in DOMAIN m \cup {k} |-> IF x = k THEN v ELSE m[x]]

\* HashMap::extend: the entries of n are inserted over those of m
Extend(m, n) == [x \in DOMAIN m \cup DOMAIN n |-> IF x \in DOMAIN n THEN n[x] ELSE m[x]]

\* HashMap::remove
Without(m, k) == [x \in DOMAIN m \ {k} |-> m[x]]

(* ----------------------------- remote chain ---------------------------- *)

\* what the remote endpoint answers at block p; the answer depends on the block
RemoteAccount(a, p) == 10 * p + a

RemoteStorage(a, s, p) == 10 * p + 4 + a + s

RemoteBlockHash(n) == 70 + n

(* -------------------------------- state -------------------------------- *)

VARIABLES
    alive,          \* the ForkedDatabase handles that exist (branches)
    cache_db,       \* cache_db[b]: the overlay of branch b
    pinned,         \* the block the shared backend is pinned to
    accounts,       \* BlockchainDb: accounts map (shared)
    storage,        \* BlockchainDb: storage map (shared), keyed <<address, slot>>
    block_hashes,   \* BlockchainDb: block hashes map (shared)
    snap_id,        \* Snapshots.id
    snapshots,      \* Snapshots.snapshots
    pc,             \* pc[b]: where branch b is inside insert_snapshot / revert_snapshot
    tmp,            \* tmp[b]: the locals of the call branch b is inside
    last,           \* the call that completed last, with its result
    captured,       \* captured[id]: the live state when snapshot id was inserted
    issued,         \* the ids returned by Snapshots::insert, in allocation order
    stale,          \* ids allocated before a successful reset
    reverted,       \* reverted[m] = n: snapshot m was removed by a successful revert to n
    committed,      \* committed[b]: the infos branch b committed since its last reset/revert
    ops,            \* operations started
    budget          \* operations a behaviour may start

vars == <<alive, cache_db, pinned, accounts, storage, block_hashes, snap_id,
          snapshots, pc, tmp, last, captured, issued, stale, reverted, committed, ops, budget>>

remote == <<accounts, storage, block_hashes>>

store == <<snap_id, snapshots>>

ghosts == <<captured, issued, stale, reverted, committed>>

U256Max == 2 ^ IdBits - 1

\* CacheDB::new: no accounts, no block hashes
EmptyOverlay == [accounts |-> EmptyMap, block_hashes |-> EmptyMap]

\* StateSnapshot plus the overlay: ForkDbSnapshot
EmptySnapshot ==
    [local |-> EmptyOverlay, accounts |-> EmptyMap, storage |-> EmptyMap,
     block_hashes |-> EmptyMap]

NoCall == [op |-> "none", b |-> 0, a |-> 0, s |-> 0, ret |-> 0, ok |-> TRUE, at |-> 0]

\* the record of a call: its arguments, its result, and (at) the count of
\* operations started when a one-step call returns
Call(op, b, a, s, ret, ok) ==
    [op |-> op, b |-> b, a |-> a, s |-> s, ret |-> ret, ok |-> ok, at |-> ops + 1]

Init ==
    /\ alive = {1}
    /\ cache_db = [b \in Branches |-> EmptyOverlay]
    /\ pinned = 1
    /\ accounts = EmptyMap
    /\ storage = EmptyMap
    /\ block_hashes = EmptyMap
    /\ snap_id = 0
    /\ snapshots = EmptyMap
    /\ pc = [b \in Branches |-> "idle"]
    /\ tmp = [b \in Branches |-> [id |-> 0, snap |-> EmptySnapshot]]
    /\ last = NoCall
    /\ captured = EmptyMap
    /\ issued = << >>
    /\ stale = {}
    /\ reverted = EmptyMap
    /\ committed = [b \in Branches |-> EmptyMap]
    /\ ops = 0
    /\ budget = MaxOps

\* branch b may start a call
Ready(b) == b \in alive /\ pc[b] = "idle" /\ ops < budget

Started == ops' = ops + 1 /\ budget' = budget

(* --------------------------- branching (Clone) ------------------------- *)

\* #[derive(Clone)]: the overlay is copied, backend, db and snapshots are shared
Clone(b, c) ==
    /\ Ready(b)
    /\ c \notin alive
    /\ alive' = alive \cup {c}
    /\ cache_db' = [cache_db EXCEPT ![c] = cache_db[b]]
    /\ committed' = [committed EXCEPT ![c] = committed[b]]
    /\ last' = Call("clone", b, c, 0, 0, TRUE)
    /\ Started
    /\ UNCHANGED <<pinned, remote, store, pc, tmp, captured, issued, stale, reverted>>

(* ---------------- SharedBackend over BlockchainDb (remote) ------------- *)

\* SharedBackend::basic answers from the accounts map, else fetches at the
\* pinned block (possible only while the transport is up)
CanBasic(a, up) == a \in DOMAIN accounts \/ up

BackendBasic(a) == IF a \in DOMAIN accounts THEN accounts[a] ELSE RemoteAccount(a, pinned)

\* the accounts map after SharedBackend::basic: a fetched account is added
AccountsFetched(a) == IF a \in DOMAIN accounts THEN accounts ELSE Put(accounts, a, RemoteAccount(a, pinned))

CanStorage(a, s, up) == <<a, s>> \in DOMAIN storage \/ up

BackendStorage(a, s) ==
    IF <<a, s>> \in DOMAIN storage THEN storage[<<a, s>>] ELSE RemoteStorage(a, s, pinned)

StorageFetched(a, s) ==
    IF <<a, s>> \in DOMAIN storage THEN storage
    ELSE Put(storage, <<a, s>>, RemoteStorage(a, s, pinned))

CanBlockHash(n, up) == n \in DOMAIN block_hashes \/ up

BackendBlockHash(n) == IF n \in DOMAIN block_hashes THEN block_hashes[n] ELSE RemoteBlockHash(n)

BlockHashesFetched(n) ==
    IF n \in DOMAIN block_hashes THEN block_hashes ELSE Put(block_hashes, n, RemoteBlockHash(n))

(* ------------------ queries: Database for ForkedDatabase --------------- *)

\* a call that changes nothing but its own record
Returns(call) ==
    /\ last' = call
    /\ Started
    /\ UNCHANGED <<alive, cache_db, pinned, remote, store, pc, tmp, ghosts>>

\* the overlay with account a set to info and its storage
WithAccount(ov, a, acct) == [ov EXCEPT !.accounts = Put(ov.accounts, a, acct)]

\* faulty variant: on an overlay miss the backend's answer is returned but not
\* kept in the overlay
Database_basic_no_store(b, a, up) ==
    /\ Ready(b)
    /\ IF a \in DOMAIN cache_db[b].accounts
       THEN Returns(Call("basic", b, a, 0, cache_db[b].accounts[a].info, TRUE))
       ELSE IF ~CanBasic(a, up)
       THEN Returns(Call("basic", b, a, 0, 0, FALSE))
       ELSE /\ accounts' = AccountsFetched(a)
            /\ last' = Call("basic", b, a, 0, BackendBasic(a), TRUE)
            /\ Started
            /\ UNCHANGED <<alive, cache_db, pinned, storage, block_hashes, store, pc, tmp,
                           ghosts>>

\* Database::basic: overlay first; on a miss the backend's answer is kept in the overlay
Database_basic(b, a, up) ==
    /\ Ready(b)
    /\ IF a \in DOMAIN cache_db[b].accounts
       THEN Returns(Call("basic", b, a, 0, cache_db[b].accounts[a].info, TRUE))
       ELSE IF ~CanBasic(a, up)
       THEN Returns(Call("basic", b, a, 0, 0, FALSE))
       ELSE /\ accounts' = AccountsFetched(a)
            /\ cache_db' = [cache_db EXCEPT ![b] =
                 WithAccount(@, a, [info |-> BackendBasic(a), storage |-> EmptyMap])]
            /\ last' = Call("basic", b, a, 0, BackendBasic(a), TRUE)
            /\ Started
            /\ UNCHANGED <<alive, pinned, storage, block_hashes, store, pc, tmp, ghosts>>

\* DatabaseRef::basic: overlay first, else the backend; the overlay is not written
DatabaseRef_basic(b, a, up) ==
    /\ Ready(b)
    /\ IF a \in DOMAIN cache_db[b].accounts
       THEN Returns(Call("basic_ref", b, a, 0, cache_db[b].accounts[a].info, TRUE))
       ELSE IF ~CanBasic(a, up)
       THEN Returns(Call("basic_ref", b, a, 0, 0, FALSE))
       ELSE /\ accounts' = AccountsFetched(a)
            /\ last' = Call("basic_ref", b, a, 0, BackendBasic(a), TRUE)
            /\ Started
            /\ UNCHANGED <<alive, cache_db, pinned, storage, block_hashes, store, pc, tmp,
                           ghosts>>

\* Database::storage: the slot of an overlay account, else fetched into it; an
\* account missing from the overlay is loaded first
Database_storage(b, a, s, up) ==
    /\ Ready(b)
    /\ LET ov == cache_db[b] IN
       IF a \in DOMAIN ov.accounts /\ s \in DOMAIN ov.accounts[a].storage
       THEN Returns(Call("storage", b, a, s, ov.accounts[a].storage[s], TRUE))
       ELSE IF a \in DOMAIN ov.accounts
       THEN IF ~CanStorage(a, s, up)
            THEN Returns(Call("storage", b, a, s, 0, FALSE))
            ELSE /\ storage' = StorageFetched(a, s)
                 /\ cache_db' = [cache_db EXCEPT ![b] =
                      WithAccount(@, a, [ov.accounts[a] EXCEPT
                          !.storage = Put(@, s, BackendStorage(a, s))])]
                 /\ last' = Call("storage", b, a, s, BackendStorage(a, s), TRUE)
                 /\ Started
                 /\ UNCHANGED <<alive, pinned, accounts, block_hashes, store, pc, tmp, ghosts>>
       ELSE IF ~CanBasic(a, up)
       THEN Returns(Call("storage", b, a, s, 0, FALSE))
       ELSE IF ~CanStorage(a, s, up)
       THEN \* the account was fetched into the remote cache, the slot failed
            /\ accounts' = AccountsFetched(a)
            /\ last' = Call("storage", b, a, s, 0, FALSE)
            /\ Started
            /\ UNCHANGED <<alive, cache_db, pinned, storage, block_hashes, store, pc, tmp,
                           ghosts>>
       ELSE /\ accounts' = AccountsFetched(a)
            /\ storage' = StorageFetched(a, s)
            /\ cache_db' = [cache_db EXCEPT ![b] =
                 WithAccount(@, a, [info |-> BackendBasic(a),
                                    storage |-> Put(EmptyMap, s, BackendStorage(a, s))])]
            /\ last' = Call("storage", b, a, s, BackendStorage(a, s), TRUE)
            /\ Started
            /\ UNCHANGED <<alive, pinned, block_hashes, store, pc, tmp, ghosts>>

\* DatabaseRef::storage
DatabaseRef_storage(b, a, s, up) ==
    /\ Ready(b)
    /\ LET ov == cache_db[b] IN
       IF a \in DOMAIN ov.accounts /\ s \in DOMAIN ov.accounts[a].storage
       THEN Returns(Call("storage_ref", b, a, s, ov.accounts[a].storage[s], TRUE))
       ELSE IF ~CanStorage(a, s, up)
       THEN Returns(Call("storage_ref", b, a, s, 0, FALSE))
       ELSE /\ storage' = StorageFetched(a, s)
            /\ last' = Call("storage_ref", b, a, s, BackendStorage(a, s), TRUE)
            /\ Started
            /\ UNCHANGED <<alive, cache_db, pinned, accounts, block_hashes, store, pc, tmp,
                           ghosts>>

\* Database::block_hash
Database_block_hash(b, n, up) ==
    /\ Ready(b)
    /\ IF n \in DOMAIN cache_db[b].block_hashes
       THEN Returns(Call("block_hash", b, n, 0, cache_db[b].block_hashes[n], TRUE))
       ELSE IF ~CanBlockHash(n, up)
       THEN Returns(Call("block_hash", b, n, 0, 0, FALSE))
       ELSE /\ block_hashes' = BlockHashesFetched(n)
            /\ cache_db' = [cache_db EXCEPT ![b].block_hashes = Put(@, n, BackendBlockHash(n))]
            /\ last' = Call("block_hash", b, n, 0, BackendBlockHash(n), TRUE)
            /\ Started
            /\ UNCHANGED <<alive, pinned, accounts, storage, store, pc, tmp, ghosts>>

\* DatabaseRef::block_hash
DatabaseRef_block_hash(b, n, up) ==
    /\ Ready(b)
    /\ IF n \in DOMAIN cache_db[b].block_hashes
       THEN Returns(Call("block_hash_ref", b, n, 0, cache_db[b].block_hashes[n], TRUE))
       ELSE IF ~CanBlockHash(n, up)
       THEN Returns(Call("block_hash_ref", b, n, 0, 0, FALSE))
       ELSE /\ block_hashes' = BlockHashesFetched(n)
            /\ last' = Call("block_hash_ref", b, n, 0, BackendBlockHash(n), TRUE)
            /\ Started
            /\ UNCHANGED <<alive, cache_db, pinned, accounts, storage, store, pc, tmp, ghosts>>

(* ------------------- commit: DatabaseCommit::commit -------------------- *)

\* what commits may carry: one change, applied to a non-empty set of addresses
SlotMaps == {EmptyMap} \cup {Put(EmptyMap, s, v) : s \in Slots, v \in CommitSlotVals}

Changes ==
    {[a \in S |-> [info |-> i, storage |-> m]] :
        S \in SUBSET Addrs \ {{}}, i \in CommitInfos, m \in SlotMaps}

\* faulty variant: an account already in the overlay keeps its info
CommitOverlayKeepsInfo(ov, changes) ==
    [ov EXCEPT !.accounts =
        [a \in DOMAIN ov.accounts \cup DOMAIN changes |->
            IF a \in DOMAIN ov.accounts
            THEN ov.accounts[a]
            ELSE [info |-> changes[a].info, storage |-> changes[a].storage]]]

\* CacheDB::commit: the account's info is overwritten, the changed slots are
\* written over its storage
CommitOverlay(ov, changes) ==
    [ov EXCEPT !.accounts =
        [a \in DOMAIN ov.accounts \cup DOMAIN changes |->
            IF a \in DOMAIN changes
            THEN [info |-> changes[a].info,
                  storage |-> Extend(IF a \in DOMAIN ov.accounts
                                     THEN ov.accounts[a].storage ELSE EmptyMap,
                                     changes[a].storage)]
            ELSE ov.accounts[a]]]

\* faulty variant: the committed infos are also written into the remote accounts map
commit_writes_through(b, changes) ==
    /\ Ready(b)
    /\ cache_db' = [cache_db EXCEPT ![b] = CommitOverlay(@, changes)]
    /\ accounts' = Extend(accounts, [a \in DOMAIN changes |-> changes[a].info])
    /\ committed' = [committed EXCEPT ![b] =
                        Extend(@, [a \in DOMAIN changes |-> changes[a].info])]
    /\ last' = Call("commit", b, 0, 0, 0, TRUE)
    /\ Started
    /\ UNCHANGED <<alive, pinned, storage, block_hashes, store, pc, tmp, captured, issued,
                   stale, reverted>>

\* faulty variant: the branches share one overlay, so a commit reaches all of them
commit_shared(b, changes) ==
    /\ Ready(b)
    /\ cache_db' = [c \in Branches |->
                       IF c \in alive THEN CommitOverlay(cache_db[c], changes) ELSE cache_db[c]]
    /\ committed' = [committed EXCEPT ![b] =
                        Extend(@, [a \in DOMAIN changes |-> changes[a].info])]
    /\ last' = Call("commit", b, 0, 0, 0, TRUE)
    /\ Started
    /\ UNCHANGED <<alive, pinned, remote, store, pc, tmp, captured, issued, stale, reverted>>

\* faulty variant: the stored snapshots share the overlay's storage with the live
\* database, so a commit shows through them
commit_aliased(b, changes) ==
    /\ Ready(b)
    /\ cache_db' = [cache_db EXCEPT ![b] = CommitOverlay(@, changes)]
    /\ snapshots' = [id \in DOMAIN snapshots |->
                        [snapshots[id] EXCEPT !.local = CommitOverlay(@, changes)]]
    /\ committed' = [committed EXCEPT ![b] =
                        Extend(@, [a \in DOMAIN changes |-> changes[a].info])]
    /\ last' = Call("commit", b, 0, 0, 0, TRUE)
    /\ Started
    /\ UNCHANGED <<alive, pinned, remote, snap_id, pc, tmp, captured, issued, stale, reverted>>

commit(b, changes) ==
    /\ Ready(b)
    /\ cache_db' = [cache_db EXCEPT ![b] = CommitOverlay(@, changes)]
    /\ committed' = [committed EXCEPT ![b] =
                        Extend(@, [a \in DOMAIN changes |-> changes[a].info])]
    /\ last' = Call("commit", b, 0, 0, 0, TRUE)
    /\ Started
    /\ UNCHANGED <<alive, pinned, remote, store, pc, tmp, captured, issued, stale, reverted>>

(* -------------------------------- reset -------------------------------- *)

Range(f) == {f[x] : x \in DOMAIN f}

\* faulty variant: the remote maps and the overlay are wiped before set_pinned_block
\* is tried
reset_wipes_first(b, block_number, pin_ok) ==
    /\ Ready(b)
    /\ pinned' = IF pin_ok THEN block_number ELSE pinned
    /\ accounts' = EmptyMap
    /\ storage' = EmptyMap
    /\ block_hashes' = EmptyMap
    /\ cache_db' = [cache_db EXCEPT ![b] = EmptyOverlay]
    /\ committed' = [committed EXCEPT ![b] = EmptyMap]
    /\ stale' = IF pin_ok THEN stale \cup Range(issued) ELSE stale
    /\ last' = Call("reset", b, block_number, 0, 0, pin_ok)
    /\ Started
    /\ UNCHANGED <<alive, store, pc, tmp, captured, issued, reverted>>

\* faulty variant: a successful reset keeps the caller's overlay
reset_keeps_overlay(b, block_number, pin_ok) ==
    /\ Ready(b)
    /\ IF ~pin_ok
       THEN Returns(Call("reset", b, block_number, 0, 0, FALSE))
       ELSE /\ pinned' = block_number
            /\ accounts' = EmptyMap
            /\ storage' = EmptyMap
            /\ block_hashes' = EmptyMap
            /\ committed' = [committed EXCEPT ![b] = EmptyMap]
            /\ stale' = stale \cup Range(issued)
            /\ last' = Call("reset", b, block_number, 0, 0, TRUE)
            /\ Started
            /\ UNCHANGED <<alive, cache_db, store, pc, tmp, captured, issued, reverted>>

\* ForkedDatabase::reset; pin_ok is whether set_pinned_block succeeds
reset(b, block_number, pin_ok) ==
    /\ Ready(b)
    /\ IF ~pin_ok
       THEN Returns(Call("reset", b, block_number, 0, 0, FALSE))
       ELSE /\ pinned' = block_number
            /\ accounts' = EmptyMap
            /\ storage' = EmptyMap
            /\ block_hashes' = EmptyMap
            /\ cache_db' = [cache_db EXCEPT ![b] = EmptyOverlay]
            /\ committed' = [committed EXCEPT ![b] = EmptyMap]
            /\ stale' = stale \cup Range(issued)
            /\ last' = Call("reset", b, block_number, 0, 0, TRUE)
            /\ Started
            /\ UNCHANGED <<alive, store, pc, tmp, captured, issued, reverted>>

(* ------------------------------ Snapshots ------------------------------ *)

\* U256::saturating_add
saturating_add(x, y) == IF x + y > U256Max THEN U256Max ELSE x + y

\* Snapshots::next_id on the counter: the id handed out and the counter after it
next_id(id) == [ret |-> id, id |-> saturating_add(id, 1)]

\* Snapshots::insert on [id, snapshots]
Snapshots_insert(st, snapshot) ==
    LET n == next_id(st.id) IN
    [id |-> n.id, snapshots |-> Put(st.snapshots, n.ret, snapshot), ret |-> n.ret]

\* faulty variant: the loop stops one snapshot early
CascadeStopsEarly(m, to_revert, id) ==
    [x \in {k \in DOMAIN m : ~(to_revert <= k /\ k + 1 < id)} |-> m[x]]

\* the loop of Snapshots::remove
RECURSIVE Cascade(_, _, _)
Cascade(m, to_revert, id) ==
    IF to_revert < id THEN Cascade(Without(m, to_revert), to_revert + 1, id) ELSE m

\* faulty variant: remove rewinds the counter to the removed id
Snapshots_remove_rewinds(st, id) ==
    [id |-> IF id < st.id THEN id ELSE st.id,
     snapshots |-> Cascade(Without(st.snapshots, id), id + 1, st.id),
     found |-> id \in DOMAIN st.snapshots,
     snapshot |-> IF id \in DOMAIN st.snapshots THEN st.snapshots[id] ELSE EmptySnapshot]

\* faulty variant: the loop runs only when the id was present
Snapshots_remove_found_only(st, id) ==
    [id |-> st.id,
     snapshots |-> IF id \in DOMAIN st.snapshots
                   THEN Cascade(Without(st.snapshots, id), id + 1, st.id)
                   ELSE st.snapshots,
     found |-> id \in DOMAIN st.snapshots,
     snapshot |-> IF id \in DOMAIN st.snapshots THEN st.snapshots[id] ELSE EmptySnapshot]

\* Snapshots::remove on [id, snapshots]; found/snapshot stand for the Option
Snapshots_remove(st, id) ==
    [id |-> st.id,
     snapshots |-> Cascade(Without(st.snapshots, id), id + 1, st.id),
     found |-> id \in DOMAIN st.snapshots,
     snapshot |-> IF id \in DOMAIN st.snapshots THEN st.snapshots[id] ELSE EmptySnapshot]

\* the ids revert_snapshot is called with
RevertIds == 0 .. MaxSnapshots

(* --------------------- snapshot capture and restore -------------------- *)

\* ForkedDatabase::create_snapshot
create_snapshot(b) ==
    [local |-> cache_db[b], accounts |-> accounts, storage |-> storage,
     block_hashes |-> block_hashes]

\* the live state as branch b sees it
LiveState(b) ==
    [local |-> cache_db[b], accounts |-> accounts, storage |-> storage,
     block_hashes |-> block_hashes]

\* faulty variant: extend(map) without the clear()
RestoreMerges(live, map) == Extend(live, map)

\* clear() then extend(map) under one write lock
Restore(live, map) == Extend(EmptyMap, map)

\* ForkedDatabase::insert_snapshot as one step
insert_snapshot(b) ==
    /\ Ready(b)
    /\ snap_id < MaxSnapshots
    /\ LET r == Snapshots_insert([id |-> snap_id, snapshots |-> snapshots], create_snapshot(b)) IN
       /\ snap_id' = r.id
       /\ snapshots' = r.snapshots
       /\ captured' = Put(captured, r.ret, LiveState(b))
       /\ issued' = Append(issued, r.ret)
       /\ last' = Call("insert", b, r.ret, 0, r.ret, TRUE)
    /\ Started
    /\ UNCHANGED <<alive, cache_db, pinned, remote, pc, tmp, stale, reverted, committed>>

\* the snapshots present that a successful revert to id removes, each mapped to id
RemovedBy(id) == [m \in {k \in DOMAIN snapshots : k >= id} |-> id]

\* faulty variant: a missing snapshot is restored as an empty one
revert_snapshot_default(b, id) ==
    /\ Ready(b)
    /\ LET r == Snapshots_remove([id |-> snap_id, snapshots |-> snapshots], id) IN
       /\ snap_id' = r.id
       /\ snapshots' = r.snapshots
       /\ accounts' = Restore(accounts, r.snapshot.accounts)
       /\ storage' = Restore(storage, r.snapshot.storage)
       /\ block_hashes' = Restore(block_hashes, r.snapshot.block_hashes)
       /\ cache_db' = [cache_db EXCEPT ![b] = r.snapshot.local]
       /\ committed' = [committed EXCEPT ![b] = EmptyMap]
       /\ reverted' = IF r.found THEN Extend(reverted, RemovedBy(id)) ELSE reverted
       /\ last' = Call("revert", b, id, 0, 0, r.found)
    /\ Started
    /\ UNCHANGED <<alive, pinned, pc, tmp, captured, issued, stale>>

\* faulty variant: a successful revert restores the remote maps and keeps the
\* reverting branch's own overlay
revert_snapshot_keeps_overlay(b, id) ==
    /\ Ready(b)
    /\ LET r == Snapshots_remove([id |-> snap_id, snapshots |-> snapshots], id) IN
       /\ snap_id' = r.id
       /\ snapshots' = r.snapshots
       /\ IF r.found
          THEN /\ accounts' = Restore(accounts, r.snapshot.accounts)
               /\ storage' = Restore(storage, r.snapshot.storage)
               /\ block_hashes' = Restore(block_hashes, r.snapshot.block_hashes)
               /\ committed' = [committed EXCEPT ![b] = EmptyMap]
               /\ reverted' = Extend(reverted, RemovedBy(id))
               /\ UNCHANGED cache_db
          ELSE UNCHANGED <<cache_db, remote, committed, reverted>>
       /\ last' = Call("revert", b, id, 0, 0, r.found)
    /\ Started
    /\ UNCHANGED <<alive, pinned, pc, tmp, captured, issued, stale>>

\* ForkedDatabase::revert_snapshot as one step
revert_snapshot(b, id) ==
    /\ Ready(b)
    /\ LET r == Snapshots_remove([id |-> snap_id, snapshots |-> snapshots], id) IN
       /\ snap_id' = r.id
       /\ snapshots' = r.snapshots
       /\ IF r.found
          THEN /\ accounts' = Restore(accounts, r.snapshot.accounts)
               /\ storage' = Restore(storage, r.snapshot.storage)
               /\ block_hashes' = Restore(block_hashes, r.snapshot.block_hashes)
               /\ cache_db' = [cache_db EXCEPT ![b] = r.snapshot.local]
               /\ committed' = [committed EXCEPT ![b] = EmptyMap]
               /\ reverted' = Extend(reverted, RemovedBy(id))
          ELSE UNCHANGED <<cache_db, remote, committed, reverted>>
       /\ last' = Call("revert", b, id, 0, 0, r.found)
    /\ Started
    /\ UNCHANGED <<alive, pinned, pc, tmp, captured, issued, stale>>

(* --------------------------- specification ----------------------------- *)

Queries ==
    \E b \in Branches, up \in BOOLEAN :
        \/ \E a \in Addrs : Database_basic(b, a, up)
        \/ \E a \in Addrs : DatabaseRef_basic(b, a, up)
        \/ \E a \in Addrs, s \in Slots : Database_storage(b, a, s, up)
        \/ \E a \in Addrs, s \in Slots : DatabaseRef_storage(b, a, s, up)
        \/ \E n \in Numbers : Database_block_hash(b, n, up)
        \/ \E n \in Numbers : DatabaseRef_block_hash(b, n, up)

Updates ==
    \E b \in Branches :
        \/ \E c \in Branches : Clone(b, c)
        \/ \E changes \in Changes : commit(b, changes)
        \/ \E block_number \in Blocks, pin_ok \in BOOLEAN : reset(b, block_number, pin_ok)

Next ==
    \/ Queries
    \/ Updates
    \/ \E b \in Branches : insert_snapshot(b)
    \/ \E b \in Branches, id \in RevertIds : revert_snapshot(b, id)

Spec == Init /\ [][Next]_vars

(* ------------- insert_snapshot and revert_snapshot, by locks ----------- *)

\* the insert_snapshot calls, each as <<branch, number of its call>>, that have
\* finished create_snapshot and have not been given an id yet
Captured == {<<c, tmp[c].t0>> : c \in {d \in Branches : pc[d] \in {"insert", "ins_next_id"}}}

\* create_snapshot reads the three maps one read lock after the other, then
\* clones the overlay; seen collects the three maps as they stand together at
\* each of the reads, t0 numbers the call and before keeps the calls whose
\* capture was finished when this one began
create_snapshot_accounts(b) ==
    /\ Ready(b)
    /\ snap_id < MaxSnapshots
    /\ tmp' = [tmp EXCEPT ![b] = [id |-> 0, snap |-> [EmptySnapshot EXCEPT !.accounts = accounts],
                                  seen |-> {remote}, t0 |-> ops + 1, before |-> Captured]]
    /\ pc' = [pc EXCEPT ![b] = "cs_storage"]
    /\ Started
    /\ UNCHANGED <<alive, cache_db, pinned, remote, store, last, ghosts>>

create_snapshot_storage(b) ==
    /\ pc[b] = "cs_storage"
    /\ tmp' = [tmp EXCEPT ![b].snap.storage = storage, ![b].seen = @ \cup {remote}]
    /\ pc' = [pc EXCEPT ![b] = "cs_block_hashes"]
    /\ UNCHANGED <<alive, cache_db, pinned, remote, store, last, ghosts, ops, budget>>

create_snapshot_block_hashes(b) ==
    /\ pc[b] = "cs_block_hashes"
    /\ tmp' = [tmp EXCEPT ![b].snap.block_hashes = block_hashes,
                          ![b].snap.local = cache_db[b],
                          ![b].seen = @ \cup {remote}]
    /\ pc' = [pc EXCEPT ![b] = "insert"]
    /\ UNCHANGED <<alive, cache_db, pinned, remote, store, last, ghosts, ops, budget>>

\* insert_snapshot: Snapshots::insert under the mutex
insert_locked(b) ==
    /\ pc[b] = "insert"
    /\ LET r == Snapshots_insert([id |-> snap_id, snapshots |-> snapshots], tmp[b].snap) IN
       /\ snap_id' = r.id
       /\ snapshots' = r.snapshots
       /\ captured' = Put(captured, r.ret, LiveState(b))
       /\ issued' = Append(issued, r.ret)
       /\ last' = Call("insert", b, r.ret, 0, r.ret, TRUE)
    /\ pc' = [pc EXCEPT ![b] = "idle"]
    /\ tmp' = [tmp EXCEPT ![b] = [id |-> 0, snap |-> EmptySnapshot]]
    /\ UNCHANGED <<alive, cache_db, pinned, remote, stale, reverted, committed, ops, budget>>

\* revert_snapshot: Snapshots::remove under the mutex; None returns false
remove_locked(b, id) ==
    /\ Ready(b)
    /\ LET r == Snapshots_remove([id |-> snap_id, snapshots |-> snapshots], id) IN
       /\ snap_id' = r.id
       /\ snapshots' = r.snapshots
       /\ IF r.found
          THEN /\ tmp' = [tmp EXCEPT ![b] = [id |-> id, snap |-> r.snapshot]]
               /\ pc' = [pc EXCEPT ![b] = "rv_accounts"]
               /\ reverted' = Extend(reverted, RemovedBy(id))
               /\ UNCHANGED last
          ELSE /\ last' = Call("revert", b, id, 0, 0, FALSE)
               /\ UNCHANGED <<pc, tmp, reverted>>
    /\ Started
    /\ UNCHANGED <<alive, cache_db, pinned, remote, captured, issued, stale, committed>>

\* the accounts write lock: clear, extend; changed notes whether the restores
\* done so far altered a map
restore_accounts(b) ==
    /\ pc[b] = "rv_accounts"
    /\ accounts' = Restore(accounts, tmp[b].snap.accounts)
    /\ tmp' = [tmp EXCEPT ![b] = [id |-> tmp[b].id, snap |-> tmp[b].snap,
                                  changed |-> accounts # tmp[b].snap.accounts]]
    /\ pc' = [pc EXCEPT ![b] = "rv_storage"]
    /\ UNCHANGED <<alive, cache_db, pinned, storage, block_hashes, store, last, ghosts, ops, budget>>

\* the storage write lock
restore_storage(b) ==
    /\ pc[b] = "rv_storage"
    /\ storage' = Restore(storage, tmp[b].snap.storage)
    /\ tmp' = [tmp EXCEPT ![b].changed = @ \/ storage # tmp[b].snap.storage]
    /\ pc' = [pc EXCEPT ![b] = "rv_block_hashes"]
    /\ UNCHANGED <<alive, cache_db, pinned, accounts, block_hashes, store, last, ghosts, ops, budget>>

\* the block_hashes write lock
restore_block_hashes(b) ==
    /\ pc[b] = "rv_block_hashes"
    /\ block_hashes' = Restore(block_hashes, tmp[b].snap.block_hashes)
    /\ pc' = [pc EXCEPT ![b] = "rv_local"]
    /\ UNCHANGED <<alive, cache_db, pinned, accounts, storage, store, tmp, last, ghosts, ops, budget>>

\* self.cache_db = local; true
restore_local(b) ==
    /\ pc[b] = "rv_local"
    /\ cache_db' = [cache_db EXCEPT ![b] = tmp[b].snap.local]
    /\ committed' = [committed EXCEPT ![b] = EmptyMap]
    /\ last' = Call("revert", b, tmp[b].id, 0, 0, TRUE)
    /\ pc' = [pc EXCEPT ![b] = "idle"]
    /\ tmp' = [tmp EXCEPT ![b] = [id |-> 0, snap |-> EmptySnapshot]]
    /\ UNCHANGED <<alive, pinned, remote, store, captured, issued, stale, reverted, ops, budget>>

NextC ==
    \/ Queries
    \/ Updates
    \/ \E b \in Branches :
        \/ create_snapshot_accounts(b)
        \/ create_snapshot_storage(b)
        \/ create_snapshot_block_hashes(b)
        \/ insert_locked(b)
        \/ \E id \in RevertIds : remove_locked(b, id)
        \/ restore_accounts(b)
        \/ restore_storage(b)
        \/ restore_block_hashes(b)
        \/ restore_local(b)

InitC ==
    /\ alive = {1}
    /\ cache_db = [b \in Branches |-> EmptyOverlay]
    /\ pinned = 1
    /\ accounts = EmptyMap
    /\ storage = EmptyMap
    /\ block_hashes = EmptyMap
    /\ snap_id = 0
    /\ snapshots = EmptyMap
    /\ pc = [b \in Branches |-> "idle"]
    /\ tmp = [b \in Branches |-> [id |-> 0, snap |-> EmptySnapshot]]
    /\ last = NoCall
    /\ captured = EmptyMap
    /\ issued = << >>
    /\ stale = {}
    /\ reverted = EmptyMap
    /\ committed = [b \in Branches |-> EmptyMap]
    /\ ops = 0
    /\ budget = MaxOpsC

SpecC == InitC /\ [][NextC]_vars

(* ------------------- the id counter up to saturation ------------------- *)

\* the calls it takes to run the counter from 0 into saturation and insert
\* twice more
MaxOpsS == U256Max + 3

\* ForkedDatabase::insert_snapshot as one step, with no cap on the counter
insert_snapshot_any(b) ==
    /\ Ready(b)
    /\ LET r == Snapshots_insert([id |-> snap_id, snapshots |-> snapshots], create_snapshot(b)) IN
       /\ snap_id' = r.id
       /\ snapshots' = r.snapshots
       /\ captured' = Put(captured, r.ret, LiveState(b))
       /\ issued' = Append(issued, r.ret)
       /\ last' = Call("insert", b, r.ret, 0, r.ret, TRUE)
    /\ Started
    /\ UNCHANGED <<alive, cache_db, pinned, remote, pc, tmp, stale, reverted, committed>>

\* the ids revert_snapshot is called with here; remove(U256::MAX) aborts in
\* id + 1 and is left out
RevertIdsS == 0 .. U256Max - 1

NextS ==
    \/ \E b \in Branches, c \in Branches : Clone(b, c)
    \/ \E b \in Branches : insert_snapshot_any(b)
    \/ \E b \in Branches, id \in RevertIdsS : revert_snapshot(b, id)

InitS ==
    /\ alive = {1}
    /\ cache_db = [b \in Branches |-> EmptyOverlay]
    /\ pinned = 1
    /\ accounts = EmptyMap
    /\ storage = EmptyMap
    /\ block_hashes = EmptyMap
    /\ snap_id = 0
    /\ snapshots = EmptyMap
    /\ pc = [b \in Branches |-> "idle"]
    /\ tmp = [b \in Branches |-> [id |-> 0, snap |-> EmptySnapshot]]
    /\ last = NoCall
    /\ captured = EmptyMap
    /\ issued = << >>
    /\ stale = {}
    /\ reverted = EmptyMap
    /\ committed = [b \in Branches |-> EmptyMap]
    /\ ops = 0
    /\ budget = MaxOpsS

SpecS == InitS /\ [][NextS]_vars

(* ---------- the snapshot store, statement by statement, under its mutex ---------- *)

MaxOpsL == 5

\* where a branch holds the MutexGuard of self.snapshots()
Locked == {"ins_next_id", "ins_put", "rm_take", "rm_loop"}

MutexFree == \A c \in Branches : pc[c] \notin Locked

\* faulty variant: insert_snapshot enters the store without waiting for the mutex
lock_insert_unguarded(b) ==
    /\ pc[b] = "insert"
    /\ pc' = [pc EXCEPT ![b] = "ins_next_id"]
    /\ UNCHANGED <<alive, cache_db, pinned, remote, store, tmp, last, ghosts, ops, budget>>

\* insert_snapshot: self.snapshots().lock(), after create_snapshot
lock_insert(b) ==
    /\ pc[b] = "insert"
    /\ MutexFree
    /\ pc' = [pc EXCEPT ![b] = "ins_next_id"]
    /\ UNCHANGED <<alive, cache_db, pinned, remote, store, tmp, last, ghosts, ops, budget>>

\* Snapshots::insert: let id = self.next_id()
Snapshots_insert_next_id(b) ==
    /\ pc[b] = "ins_next_id"
    /\ LET n == next_id(snap_id) IN
       /\ snap_id' = n.id
       /\ tmp' = [tmp EXCEPT ![b].id = n.ret]
       /\ issued' = Append(issued, n.ret)
    /\ pc' = [pc EXCEPT ![b] = "ins_put"]
    /\ UNCHANGED <<alive, cache_db, pinned, remote, snapshots, last, captured, stale, reverted,
                   committed, ops, budget>>

\* Snapshots::insert: self.snapshots.insert(id, snapshot); the guard is dropped
\* when insert_snapshot returns id
Snapshots_insert_put(b) ==
    /\ pc[b] = "ins_put"
    /\ snapshots' = Put(snapshots, tmp[b].id, tmp[b].snap)
    /\ captured' = Put(captured, tmp[b].id, LiveState(b))
    /\ last' = Call("insert", b, tmp[b].id, 0, tmp[b].id, TRUE)
    /\ pc' = [pc EXCEPT ![b] = "idle"]
    /\ tmp' = [tmp EXCEPT ![b] = [id |-> 0, snap |-> EmptySnapshot]]
    /\ UNCHANGED <<alive, cache_db, pinned, remote, snap_id, issued, stale, reverted, committed,
                   ops, budget>>

\* revert_snapshot: self.snapshots().lock(); bound keeps the counter as it
\* stands when the lock is taken
lock_remove(b, id) ==
    /\ Ready(b)
    /\ MutexFree
    /\ tmp' = [tmp EXCEPT ![b] = [id |-> id, snap |-> EmptySnapshot, found |-> FALSE,
                                  to_revert |-> 0, bound |-> snap_id]]
    /\ pc' = [pc EXCEPT ![b] = "rm_take"]
    /\ Started
    /\ UNCHANGED <<alive, cache_db, pinned, remote, store, last, ghosts>>

\* Snapshots::remove: let snapshot = self.snapshots.remove(&id); let mut to_revert = id + 1
Snapshots_remove_take(b) ==
    /\ pc[b] = "rm_take"
    /\ LET id == tmp[b].id
           found == id \in DOMAIN snapshots IN
       /\ tmp' = [tmp EXCEPT ![b].found = found,
                             ![b].snap = IF found THEN snapshots[id] ELSE EmptySnapshot,
                             ![b].to_revert = id + 1]
       /\ snapshots' = Without(snapshots, id)
       /\ reverted' = IF found THEN Extend(reverted, RemovedBy(id)) ELSE reverted
    /\ pc' = [pc EXCEPT ![b] = "rm_loop"]
    /\ UNCHANGED <<alive, cache_db, pinned, remote, snap_id, last, captured, issued, stale,
                   committed, ops, budget>>

\* Snapshots::remove: one turn of while to_revert < self.id, or its end; at the
\* end the guard is dropped and revert_snapshot goes on with Some or returns false
Snapshots_remove_loop(b) ==
    /\ pc[b] = "rm_loop"
    /\ IF tmp[b].to_revert < snap_id
       THEN /\ snapshots' = Without(snapshots, tmp[b].to_revert)
            /\ tmp' = [tmp EXCEPT ![b].to_revert = @ + 1]
            /\ UNCHANGED <<pc, last>>
       ELSE /\ tmp' = [tmp EXCEPT ![b] = IF tmp[b].found
                                         THEN [id |-> tmp[b].id, snap |-> tmp[b].snap]
                                         ELSE [id |-> 0, snap |-> EmptySnapshot]]
            /\ pc' = [pc EXCEPT ![b] = IF tmp[b].found THEN "rv_accounts" ELSE "idle"]
            /\ last' = IF tmp[b].found THEN last
                       ELSE [Call("revert", b, tmp[b].id, 0, 0, FALSE) EXCEPT !.at = ops]
            /\ UNCHANGED snapshots
    /\ UNCHANGED <<alive, cache_db, pinned, remote, snap_id, ghosts, ops, budget>>

NextL ==
    \/ Updates
    \/ \E b \in Branches :
        \/ create_snapshot_accounts(b)
        \/ create_snapshot_storage(b)
        \/ create_snapshot_block_hashes(b)
        \/ lock_insert(b)
        \/ Snapshots_insert_next_id(b)
        \/ Snapshots_insert_put(b)
        \/ \E id \in RevertIds : lock_remove(b, id)
        \/ Snapshots_remove_take(b)
        \/ Snapshots_remove_loop(b)
        \/ restore_accounts(b)
        \/ restore_storage(b)
        \/ restore_block_hashes(b)
        \/ restore_local(b)

InitL ==
    /\ alive = {1}
    /\ cache_db = [b \in Branches |-> EmptyOverlay]
    /\ pinned = 1
    /\ accounts = EmptyMap
    /\ storage = EmptyMap
    /\ block_hashes = EmptyMap
    /\ snap_id = 0
    /\ snapshots = EmptyMap
    /\ pc = [b \in Branches |-> "idle"]
    /\ tmp = [b \in Branches |-> [id |-> 0, snap |-> EmptySnapshot]]
    /\ last = NoCall
    /\ captured = EmptyMap
    /\ issued = << >>
    /\ stale = {}
    /\ reverted = EmptyMap
    /\ committed = [b \in Branches |-> EmptyMap]
    /\ ops = 0
    /\ budget = MaxOpsL

SpecL == InitL /\ [][NextL]_vars

(* ------------- the lock-granular steps, one more call deep ------------- *)

MaxOpsD == MaxOpsC + 1

InitD ==
    /\ alive = {1}
    /\ cache_db = [b \in Branches |-> EmptyOverlay]
    /\ pinned = 1
    /\ accounts = EmptyMap
    /\ storage = EmptyMap
    /\ block_hashes = EmptyMap
    /\ snap_id = 0
    /\ snapshots = EmptyMap
    /\ pc = [b \in Branches |-> "idle"]
    /\ tmp = [b \in Branches |-> [id |-> 0, snap |-> EmptySnapshot]]
    /\ last = NoCall
    /\ captured = EmptyMap
    /\ issued = << >>
    /\ stale = {}
    /\ reverted = EmptyMap
    /\ committed = [b \in Branches |-> EmptyMap]
    /\ ops = 0
    /\ budget = MaxOpsD

SpecD == InitD /\ [][NextC]_vars

(* ---------------- reads through a stored snapshot ---------------------- *)

\* the record of a read through snapshot id
SnapCall(op, b, id, a, s, ret, ok) == [id |-> id] @@ Call(op, b, a, s, ret, ok)

\* DatabaseRef::basic for ForkDbSnapshot: the captured overlay, then the captured
\* accounts map, then self.local.basic, which goes to the live backend
ForkDbSnapshot_basic(b, id, a, up) ==
    /\ Ready(b)
    /\ id \in DOMAIN snapshots
    /\ LET sn == snapshots[id] IN
       IF a \in DOMAIN sn.local.accounts
       THEN Returns(SnapCall("snap_basic", b, id, a, 0, sn.local.accounts[a].info, TRUE))
       ELSE IF a \in DOMAIN sn.accounts
       THEN Returns(SnapCall("snap_basic", b, id, a, 0, sn.accounts[a], TRUE))
       ELSE IF ~CanBasic(a, up)
       THEN Returns(SnapCall("snap_basic", b, id, a, 0, 0, FALSE))
       ELSE /\ accounts' = AccountsFetched(a)
            /\ last' = SnapCall("snap_basic", b, id, a, 0, BackendBasic(a), TRUE)
            /\ Started
            /\ UNCHANGED <<alive, cache_db, pinned, storage, block_hashes, store, pc, tmp,
                           ghosts>>

\* ForkDbSnapshot::get_storage: the slot of the captured overlay's account
get_storage(sn, a, s) ==
    IF a \in DOMAIN sn.local.accounts /\ s \in DOMAIN sn.local.accounts[a].storage
    THEN [some |-> TRUE, value |-> sn.local.accounts[a].storage[s]]
    ELSE [some |-> FALSE, value |-> 0]

\* DatabaseRef::storage for ForkDbSnapshot: the captured overlay's slot, then
\* get_storage, then DatabaseRef::storage(&self.local), which finds no slot in
\* the captured overlay and goes to the live backend
ForkDbSnapshot_storage(b, id, a, s, up) ==
    /\ Ready(b)
    /\ id \in DOMAIN snapshots
    /\ LET sn == snapshots[id] IN
       IF a \in DOMAIN sn.local.accounts /\ s \in DOMAIN sn.local.accounts[a].storage
       THEN Returns(SnapCall("snap_storage", b, id, a, s, sn.local.accounts[a].storage[s], TRUE))
       ELSE IF get_storage(sn, a, s).some
       THEN Returns(SnapCall("snap_storage", b, id, a, s, get_storage(sn, a, s).value, TRUE))
       ELSE IF ~CanStorage(a, s, up)
       THEN Returns(SnapCall("snap_storage", b, id, a, s, 0, FALSE))
       ELSE /\ storage' = StorageFetched(a, s)
            /\ last' = SnapCall("snap_storage", b, id, a, s, BackendStorage(a, s), TRUE)
            /\ Started
            /\ UNCHANGED <<alive, cache_db, pinned, accounts, block_hashes, store, pc, tmp,
                           ghosts>>

\* DatabaseRef::block_hash for ForkDbSnapshot: the captured block-hash map, then
\* self.local.block_hash: the captured overlay, then the live backend
ForkDbSnapshot_block_hash(b, id, n, up) ==
    /\ Ready(b)
    /\ id \in DOMAIN snapshots
    /\ LET sn == snapshots[id] IN
       IF n \in DOMAIN sn.block_hashes
       THEN Returns(SnapCall("snap_block_hash", b, id, n, 0, sn.block_hashes[n], TRUE))
       ELSE IF n \in DOMAIN sn.local.block_hashes
       THEN Returns(SnapCall("snap_block_hash", b, id, n, 0, sn.local.block_hashes[n], TRUE))
       ELSE IF ~CanBlockHash(n, up)
       THEN Returns(SnapCall("snap_block_hash", b, id, n, 0, 0, FALSE))
       ELSE /\ block_hashes' = BlockHashesFetched(n)
            /\ last' = SnapCall("snap_block_hash", b, id, n, 0, BackendBlockHash(n), TRUE)
            /\ Started
            /\ UNCHANGED <<alive, cache_db, pinned, accounts, storage, store, pc, tmp, ghosts>>

SnapshotReads ==
    \E b \in Branches, id \in RevertIds, up \in BOOLEAN :
        \/ \E a \in Addrs : ForkDbSnapshot_basic(b, id, a, up)
        \/ \E a \in Addrs, s \in Slots : ForkDbSnapshot_storage(b, id, a, s, up)
        \/ \E n \in Numbers : ForkDbSnapshot_block_hash(b, id, n, up)

NextR ==
    \/ Next
    \/ SnapshotReads

\* the budget of calls is the one of SpecC
SpecR == InitC /\ [][NextR]_vars

(* ------------------------------- claims -------------------------------- *)

\* this step is a whole call of op: it started and returned in the step
StepIs(op) == ops' = ops + 1 /\ last'.at = ops' /\ last'.op = op

\* C1: when revert_snapshot(N) returns true, no snapshot with id >= N is
\* present right after it, and a revert to an id that a successful revert
\* removed (N itself or a later one) returns false
C1_RevertCascade ==
    [][StepIs("revert") =>
         /\ last'.ok => \A m \in DOMAIN snapshots' : m < last'.a
         /\ last'.a \in DOMAIN reverted => ~last'.ok]_vars

\* snapshot 1 was removed by the successful revert to 0, and the revert to 1
\* that followed returned false
C1_Witness ==
    /\ last.op = "revert" /\ ~last.ok /\ last.a = 1
    /\ 1 \in DOMAIN reverted /\ reverted[1] = 0

\* C2: after revert_snapshot(id) returned true, the branch's overlay and the
\* three remote maps equal what was live when snapshot id was inserted
C2_RevertRestoresExactly ==
    (last.op = "revert" /\ last.ok) =>
        LET c == captured[last.a] IN
        /\ cache_db[last.b] = c.local
        /\ accounts = c.accounts
        /\ storage = c.storage
        /\ block_hashes = c.block_hashes

\* branch 1 reverted to a snapshot that holds a block hash and no account; the
\* account branch 2 fetched through after the capture is gone from the remote map
C2_Witness ==
    /\ last.op = "revert" /\ last.ok /\ last.b = 1
    /\ block_hashes # EmptyMap
    /\ accounts = EmptyMap
    /\ 1 \in DOMAIN cache_db[2].accounts
    /\ cache_db[2].accounts[1].info = RemoteAccount(1, pinned)
    /\ stale = {}

\* C3: a stored snapshot stays equal to the live state at its capture, whatever
\* commits, fetches and resets follow
C3_SnapshotIndependent ==
    \A id \in DOMAIN snapshots : snapshots[id] = captured[id]

\* a commit just ran, and a stored snapshot with overlay and remote entries
\* differs from every live overlay and from the live accounts map
C3_Witness ==
    /\ last.op = "commit"
    /\ \E id \in DOMAIN snapshots :
        /\ snapshots[id].local.accounts # EmptyMap
        /\ snapshots[id].accounts # accounts
        /\ \A b \in alive : snapshots[id].local # cache_db[b]

\* C4: the ids handed out by insert_snapshot are 0, 1, 2, ... in allocation
\* order, without gaps or repeats, whatever inserts and reverts of the branches
\* interleave; an id a revert removed is not handed out again
C4_IdsMonotonic ==
    /\ \A i \in 1 .. Len(issued) : issued[i] = i - 1
    /\ \A i \in 1 .. Len(issued) : issued[i] < snap_id
    /\ \A m \in DOMAIN reverted : m < snap_id

\* id 0 was reverted and id 1 handed out while that revert was still restoring
C4_Witness ==
    /\ issued = <<0, 1>>
    /\ 0 \in DOMAIN reverted
    /\ 1 \in DOMAIN snapshots
    /\ \E b \in Branches : pc[b] \in {"rv_accounts", "rv_storage", "rv_block_hashes", "rv_local"}

\* C5: a reset whose set_pinned_block fails returns the error and leaves the
\* overlays and the three remote maps as they were
C5_ResetAtomic ==
    [][(StepIs("reset") /\ ~last'.ok) =>
          UNCHANGED <<cache_db, accounts, storage, block_hashes>>]_vars

\* a reset failed while the remote maps and the caller's overlay held entries
C5_Witness ==
    /\ last.op = "reset" /\ ~last.ok
    /\ accounts # EmptyMap /\ storage # EmptyMap /\ block_hashes # EmptyMap
    /\ cache_db[last.b] # EmptyOverlay

C7_WriteIsolation ==
    (last.op \in {"basic", "basic_ref"} /\ last.a \in DOMAIN committed[last.b]) =>
        (last.ok /\ last.ret = committed[last.b][last.a])

\* the query returned the committed info while the remote accounts map holds
\* another record for the address
C7_Witness ==
    /\ last.op = "basic"
    /\ last.a \in DOMAIN committed[last.b]
    /\ last.a \in DOMAIN accounts
    /\ accounts[last.a] # last.ret

\* C8: a commit leaves the three remote maps and the snapshot store as they were
C8_CommitOverlayOnly ==
    [][StepIs("commit") =>
          UNCHANGED <<accounts, storage, block_hashes, snap_id, snapshots>>]_vars

\* a commit ran over a fetched account while a snapshot was stored: the overlay
\* holds the committed info, the remote map the fetched one
C8_Witness ==
    /\ last.op = "commit"
    /\ snapshots # EmptyMap
    /\ 1 \in DOMAIN accounts
    /\ 1 \in DOMAIN cache_db[last.b].accounts
    /\ cache_db[last.b].accounts[1].info # accounts[1]

\* C9: a commit on one branch leaves the overlay of every other branch as it
\* was, and so every answer that overlay gives
C9_BranchIsolation ==
    [][StepIs("commit") =>
          \A c \in Branches \ {last'.b} : cache_db'[c] = cache_db[c]]_vars

\* branch 1 committed while branch 2, cloned from it with a fetched account in
\* its overlay, was inside a snapshot call
C9_Witness ==
    /\ last.op = "commit" /\ last.b = 1 /\ last.at = ops
    /\ 2 \in alive
    /\ pc[2] # "idle"
    /\ 1 \in DOMAIN cache_db[2].accounts
    /\ cache_db[2].accounts[1].info = RemoteAccount(1, pinned)
    /\ cache_db[1].accounts[1].info \in CommitInfos

\* C10: after a successful reset, a revert to a snapshot inserted before the
\* reset brings nothing captured against another pinned block back: no remote
\* entry and no overlay account of the reverting branch holds a record of a
\* block other than the pinned one
C10_ResetDiscontinuity ==
    (last.op = "revert" /\ last.ok /\ last.a \in stale) =>
        /\ \A a \in DOMAIN accounts : accounts[a] = RemoteAccount(a, pinned)
        /\ \A k \in DOMAIN storage : storage[k] = RemoteStorage(k[1], k[2], pinned)
        /\ \A a \in DOMAIN cache_db[last.b].accounts :
              cache_db[last.b].accounts[a].info
                 \notin {RemoteAccount(a, p) : p \in Blocks \ {pinned}}

\* C11: after a reset that succeeded, the backend is pinned to the block asked
\* for, the three remote maps are empty and the caller's overlay is a fresh
\* empty one
C11_ResetClears ==
    (last.op = "reset" /\ last.ok) =>
        /\ pinned = last.a
        /\ accounts = EmptyMap
        /\ storage = EmptyMap
        /\ block_hashes = EmptyMap
        /\ cache_db[last.b] = EmptyOverlay

\* the reset moved the pin to block 2; the snapshot taken before it shows that
\* the overlay and the remote accounts and storage maps held entries
C11_Witness ==
    /\ last.op = "reset" /\ last.ok /\ last.a = 2 /\ pinned = 2
    /\ alive = {1}
    /\ \E id \in DOMAIN snapshots :
        /\ snapshots[id].local.accounts # EmptyMap
        /\ snapshots[id].accounts # EmptyMap
        /\ snapshots[id].storage # EmptyMap
    /\ cache_db[1] = EmptyOverlay /\ accounts = EmptyMap /\ storage = EmptyMap

\* C12: with the counter saturating at U256::MAX, an insert_snapshot never
\* returns an id that an earlier insert returned, and never writes over a
\* snapshot still stored under the id it returns
C12_NoIdReuse ==
    [][StepIs("insert") =>
          /\ last'.ret \notin Range(issued)
          /\ last'.ret \notin DOMAIN snapshots]_vars

\* C13: a mutable query_account for an address that is in the remote accounts
\* map and not in the branch's overlay returns the map's record and keeps it in
\* the overlay; a query_account for an address in the overlay returns the
\* overlay's record and fetches nothing; so a second query_account right after
\* the first returns the same record and leaves overlay and remote maps alone
C13_FallbackOrder ==
    [][StepIs("basic") =>
         LET b == last'.b
             a == last'.a IN
         /\ (a \notin DOMAIN cache_db[b].accounts /\ a \in DOMAIN accounts) =>
               /\ last'.ok /\ last'.ret = accounts[a]
               /\ a \in DOMAIN cache_db'[b].accounts
               /\ cache_db'[b].accounts[a].info = accounts[a]
               /\ UNCHANGED <<accounts, storage, block_hashes>>
         /\ a \in DOMAIN cache_db[b].accounts =>
               /\ last'.ok /\ last'.ret = cache_db[b].accounts[a].info
               /\ UNCHANGED <<cache_db, accounts, storage, block_hashes>>
         /\ (last.op = "basic" /\ last.ok /\ last.b = b /\ last.a = a) =>
               /\ last'.ok /\ last'.ret = last.ret
               /\ UNCHANGED <<cache_db, accounts, storage, block_hashes>>]_vars

\* the query was answered from the remote accounts map: the branch had reverted
\* to snapshot 0, taken with an empty overlay and the block-1 record in the
\* map, and the record it got and kept is the block-1 one while the pin is at
\* block 2
C13_Witness ==
    /\ last.op = "basic" /\ last.ok /\ last.b = 1 /\ last.a = 1 /\ last.at = ops
    /\ alive = {1}
    /\ pinned = 2
    /\ 0 \in DOMAIN reverted /\ 0 \in stale
    /\ captured[0].local = EmptyOverlay
    /\ captured[0].accounts = Put(EmptyMap, 1, RemoteAccount(1, 1))
    /\ last.ret = RemoteAccount(1, 1)
    /\ accounts = Put(EmptyMap, 1, RemoteAccount(1, 1))
    /\ cache_db[1].accounts[1].info = RemoteAccount(1, 1)

C15_StoreOpsIndivisible ==
    [][/\ \A b \in Branches, c \in Branches :
             (pc'[b] \in Locked /\ pc'[c] \in Locked) => b = c
       /\ \A b \in Branches :
             (pc[b] = "rm_loop" /\ pc'[b] = "rm_loop" /\ tmp'[b] = tmp[b]) =>
                 UNCHANGED <<snap_id, snapshots>>
       /\ \A b \in Branches :
             (pc[b] = "rm_loop" /\ pc'[b] # "rm_loop") =>
                 /\ snap_id' = tmp[b].bound
                 /\ \A k \in DOMAIN snapshots' : ~(tmp[b].id <= k /\ k < tmp[b].bound)]_vars

\* branch 1 is inside remove(0), past the deletion of 0 and before the removal
\* of 1, while branch 2 has captured a snapshot and waits for the mutex
C15_Witness ==
    /\ pc[1] = "rm_loop" /\ tmp[1].id = 0 /\ tmp[1].found /\ tmp[1].to_revert = 1
    /\ DOMAIN snapshots = {1}
    /\ pc[2] = "insert"

\* branch b is inside revert_snapshot with a map already restored to other
\* contents than it had, and a map still to restore that is not yet what the
\* snapshot holds
Mixed(b) ==
    /\ pc[b] \in {"rv_storage", "rv_block_hashes"}
    /\ tmp[b].changed
    /\ \/ pc[b] = "rv_storage" /\ storage # tmp[b].snap.storage
       \/ block_hashes # tmp[b].snap.block_hashes

\* the call is a query that its branch's overlay does not answer, so it reads
\* the remote maps
ReadsRemote(call) ==
    LET ov == cache_db[call.b] IN
    \/ call.op \in {"basic", "basic_ref"} /\ call.a \notin DOMAIN ov.accounts
    \/ /\ call.op \in {"storage", "storage_ref"}
       /\ ~(call.a \in DOMAIN ov.accounts /\ call.s \in DOMAIN ov.accounts[call.a].storage)
    \/ call.op \in {"block_hash", "block_hash_ref"} /\ call.a \notin DOMAIN ov.block_hashes

\* C16: revert_snapshot is a barrier for the queries of the branches sharing
\* the remote maps: no query reads the remote maps in a state in which a revert
\* has restored one map and not yet another
C16_RevertBarrier ==
    [][(ops' = ops + 1 /\ last'.at = ops' /\ ReadsRemote(last')) =>
          \A b \in Branches : ~Mixed(b)]_vars

\* C17: the accounts, storage and block-hash maps of a captured snapshot are
\* the remote maps of one instant: when create_snapshot has finished, its three
\* copies together equal the three remote maps as they stood together at one of
\* the instants it read them
C17_SnapshotOneInstant ==
    \A b \in Branches :
        pc[b] = "insert" =>
            <<tmp[b].snap.accounts, tmp[b].snap.storage, tmp[b].snap.block_hashes>>
                \in tmp[b].seen

\* C18: a read through a stored snapshot is answered from the snapshot's
\* captured overlay when that holds the key, else from the snapshot's captured
\* copy of the remote map for the kind of key when that holds it, and from the
\* live backend only when neither does
C18_SnapshotReadOrder ==
    [][(ops' = ops + 1 /\ last'.at = ops'
           /\ last'.op \in {"snap_basic", "snap_storage", "snap_block_hash"}) =>
         LET sn == snapshots[last'.id]
             a == last'.a
             s == last'.s IN
         /\ last'.op = "snap_basic" =>
               IF a \in DOMAIN sn.local.accounts
               THEN last'.ok /\ last'.ret = sn.local.accounts[a].info
               ELSE a \in DOMAIN sn.accounts => last'.ok /\ last'.ret = sn.accounts[a]
         /\ last'.op = "snap_storage" =>
               IF a \in DOMAIN sn.local.accounts /\ s \in DOMAIN sn.local.accounts[a].storage
               THEN last'.ok /\ last'.ret = sn.local.accounts[a].storage[s]
               ELSE <<a, s>> \in DOMAIN sn.storage =>
                       last'.ok /\ last'.ret = sn.storage[<<a, s>>]
         /\ last'.op = "snap_block_hash" =>
               IF a \in DOMAIN sn.local.block_hashes
               THEN last'.ok /\ last'.ret = sn.local.block_hashes[a]
               ELSE a \in DOMAIN sn.block_hashes => last'.ok /\ last'.ret = sn.block_hashes[a]]_vars

\* the value a query finds without a fetch: the overlay's when the overlay
\* holds the key, else the remote map's; none when neither holds it
Resident(call) ==
    LET ov == cache_db[call.b]
        a == call.a
        s == call.s IN
    IF call.op \in {"basic", "basic_ref"}
    THEN IF a \in DOMAIN ov.accounts THEN [some |-> TRUE, value |-> ov.accounts[a].info]
         ELSE IF a \in DOMAIN accounts THEN [some |-> TRUE, value |-> accounts[a]]
         ELSE [some |-> FALSE, value |-> 0]
    ELSE IF call.op \in {"storage", "storage_ref"}
    THEN IF a \in DOMAIN ov.accounts /\ s \in DOMAIN ov.accounts[a].storage
         THEN [some |-> TRUE, value |-> ov.accounts[a].storage[s]]
         ELSE IF <<a, s>> \in DOMAIN storage THEN [some |-> TRUE, value |-> storage[<<a, s>>]]
         ELSE [some |-> FALSE, value |-> 0]
    ELSE IF a \in DOMAIN ov.block_hashes THEN [some |-> TRUE, value |-> ov.block_hashes[a]]
         ELSE IF a \in DOMAIN block_hashes THEN [some |-> TRUE, value |-> block_hashes[a]]
         ELSE [some |-> FALSE, value |-> 0]

\* C19: the mutable and the read-only query of a kind, run from the same state
\* for a key whose value is resident, both succeed with that value (the overlay's
\* first, else the remote map's), and the read-only one leaves every overlay as
\* it was
C19_VariantsAgree ==
    [][(ops' = ops + 1 /\ last'.at = ops'
           /\ last'.op \in {"basic", "basic_ref", "storage", "storage_ref",
                            "block_hash", "block_hash_ref"}) =>
         /\ Resident(last').some => last'.ok /\ last'.ret = Resident(last').value
         /\ last'.op \in {"basic_ref", "storage_ref", "block_hash_ref"} =>
               cache_db' = cache_db]_vars

\* C20: ids are handed out in the order of capture: when an insert_snapshot
\* call is given its id, no call whose create_snapshot had finished before this
\* call's create_snapshot began is still waiting for its id (it would get a
\* larger one)
C20_IdsFollowCapture ==
    [][\A b \in Branches :
          (pc[b] = "insert" /\ pc'[b] = "idle") =>
              \A x \in tmp[b].before : x \notin Captured]_vars

\* C21: the branches share one snapshot store: an insert_snapshot on any branch
\* puts the snapshot, with that branch's overlay, into the store every branch
\* reverts from; a revert_snapshot(id) on any branch, the inserting one or
\* another, returns true when id is stored, replaces that branch's overlay by
\* the overlay stored under id and leaves no snapshot with an id from id on,
\* whichever branch inserted it; in particular a revert by another branch right
\* after the insert gives that branch the inserting branch's overlay
C21_SharedStore ==
    [][/\ StepIs("insert") =>
             /\ last'.ret \in DOMAIN snapshots'
             /\ snapshots'[last'.ret].local = cache_db[last'.b]
       /\ (StepIs("revert") /\ last'.a \in DOMAIN snapshots) =>
             /\ last'.ok
             /\ cache_db'[last'.b] = snapshots[last'.a].local
             /\ \A c \in Branches \ {last'.b} : cache_db'[c] = cache_db[c]
             /\ \A k \in DOMAIN snapshots' : k < last'.a
       /\ (StepIs("revert") /\ last.op = "insert" /\ last.b # last'.b
              /\ last'.a = last.ret) =>
             /\ last'.ok
             /\ cache_db'[last'.b] = cache_db[last.b]]_vars

\* branch 2 reverted to snapshot 0, which branch 1 had inserted with the info it
\* committed after the clone; branch 2 now holds that overlay, and snapshot 1,
\* which branch 2 had inserted with its empty overlay, went with the cascade
C21_Witness ==
    /\ last.op = "revert" /\ last.ok /\ last.b = 2 /\ last.a = 0 /\ last.at = ops
    /\ ops = 5
    /\ issued = <<0, 1>>
    /\ 1 \in DOMAIN captured[0].local.accounts
    /\ captured[0].local.accounts[1].info \in CommitInfos
    /\ captured[1].local = EmptyOverlay
    /\ 1 \in DOMAIN committed[1]
    /\ cache_db[2] = captured[0].local
    /\ 1 \in DOMAIN reverted /\ reverted[1] = 0
    /\ snapshots = EmptyMap
    /\ accounts = EmptyMap

====
